---- MODULE Spec2Model ----
(***************************************************************************)
(* RBTree<K, V> of src/RBTree.hpp as a state machine.                      *)
(*                                                                         *)
(* A std::unique_ptr<Node> is modelled by the value it owns: a subtree is  *)
(* a record holding its node's fields and, in left and right, the two      *)
(* subtrees the node owns; the empty pointer is the record nullptr.  Every *)
(* node carries its address in the field id, and the raw pointer           *)
(* Node* parent is the address of the node pointed to (0 for null).  A     *)
(* function of the source that takes a std::unique_ptr<Node>& and changes  *)
(* it in place is an operator that takes the subtree and returns the new   *)
(* one.                                                                    *)
(*                                                                         *)
(* Each public call is one action.  The variable last records the call     *)
(* and what it returned.  Beside the tree runs the finite map from keys to *)
(* values that the tree stands for (amap), on which every call is made as  *)
(* well; alast is what the call returns there.                             *)
(***************************************************************************)
EXTENDS Integers, Sequences, FiniteSets, TLC

\* Spec: the whole interface on keys 1..MaxKey with values 1..MaxVal.
MaxKey == 4
MaxVal == 2

Keys   == 1..MaxKey
Values == 1..MaxVal

\* SpecShape: the whole interface on keys 1..MaxShapeKey with values
\* 1..MaxShapeVal: more keys, so that deeper trees and every case of the
\* removal fixup are reached.
MaxShapeKey == 5
MaxShapeVal == 1

ShapeKeys   == 1..MaxShapeKey
ShapeValues == 1..MaxShapeVal

\* The state of a V that has been moved from (valid but unspecified).
MovedFrom == 0

VARIABLES
    m_root,    \* the tree the root pointer owns
    m_size,    \* the cached element count
    last,      \* the last public call and what it returned
    amap,      \* the finite map the tree stands for: a set of <<key, value>>
    alast      \* what the last call returns on the finite map

vars == <<m_root, m_size, last, amap, alast>>

----------------------------------------------------------------------------
\* Node, Direction, Color

DIR_LEFT  == 0
DIR_RIGHT == 1

Red   == "Red"
Black == "Black"

nullptr == [id |-> 0]

IsNull(t) == t.id = 0

\* Node::Node(parent, color, key, value), at address addr
Node(addr, parent, color, key, value) ==
    [id |-> addr, key |-> key, value |-> value, parent |-> parent,
     left |-> nullptr, right |-> nullptr, color |-> color]

is_red(n)   == n.color = Red
is_black(n) == n.color = Black

child(n, dir) == IF dir = DIR_LEFT THEN n.left ELSE n.right

\* n->child(dir) = c
SetChild(n, dir, c) ==
    IF dir = DIR_LEFT THEN [n EXCEPT !.left = c] ELSE [n EXCEPT !.right = c]

\* !dir
Opposite(dir) == IF dir = DIR_LEFT THEN DIR_RIGHT ELSE DIR_LEFT

\* p->color = c on a pointer that is known not to be null
SetColor(n, c) == [n EXCEPT !.color = c]

----------------------------------------------------------------------------
\* Rotations

\* single_rotation without Step 3's save->parent = old_parent
single_rotation_KeepsParent(root, dir) ==
    LET odir     == Opposite(dir)
        save     == child(root, odir)
        moved    == child(save, dir)
        moved1   == IF IsNull(moved) THEN moved
                    ELSE [moved EXCEPT !.parent = root.id]
        old_root == [SetChild(root, odir, moved1) EXCEPT
                         !.color = Red, !.parent = save.id]
    IN  [SetChild(save, dir, old_root) EXCEPT !.color = Black]

\* single_rotation without Step 1: the subtree between the two nodes is
\* not handed over to old_root
single_rotation_DropsMoved(root, dir) ==
    LET odir     == Opposite(dir)
        save     == child(root, odir)
        old_root == [SetChild(root, odir, nullptr) EXCEPT
                         !.color = Red, !.parent = save.id]
    IN  [SetChild(save, dir, old_root) EXCEPT
             !.color = Black, !.parent = root.parent]

single_rotation(root, dir) ==
    LET odir       == Opposite(dir)
        old_parent == root.parent
        save       == child(root, odir)
        moved      == child(save, dir)
        \* Step 1: the subtree that moves under old_root
        moved1     == IF IsNull(moved) THEN moved
                      ELSE [moved EXCEPT !.parent = root.id]
        \* Recolor, and Step 2: old_root becomes child(dir) of save
        old_root   == [SetChild(root, odir, moved1) EXCEPT
                           !.color = Red, !.parent = save.id]
    IN  \* Step 3: save becomes the new root of this subtree
        [SetChild(save, dir, old_root) EXCEPT
             !.color = Black, !.parent = old_parent]

\* double_rotation without the first rotation, of the child
double_rotation_Single(root, dir) == single_rotation(root, dir)

double_rotation(root, dir) ==
    LET odir == Opposite(dir)
        r1   == SetChild(root, odir, single_rotation(child(root, odir), odir))
    IN  single_rotation(r1, dir)

----------------------------------------------------------------------------
\* Insertion

\* insert_rebalance without the double rotation case
insert_rebalance_NoDouble(root, dir) ==
    LET c  == child(root, dir)
        oc == child(root, Opposite(dir))
    IN  IF ~IsNull(c) /\ is_red(c)
        THEN IF ~IsNull(oc) /\ is_red(oc)
             THEN [root EXCEPT !.color = Red,
                               !.left  = SetColor(root.left, Black),
                               !.right = SetColor(root.right, Black)]
             ELSE IF ~IsNull(child(c, dir)) /\ is_red(child(c, dir))
             THEN single_rotation(root, Opposite(dir))
             ELSE root
        ELSE root

insert_rebalance(root, dir) ==
    LET c  == child(root, dir)
        oc == child(root, Opposite(dir))
    IN  IF ~IsNull(c) /\ is_red(c)
        THEN IF ~IsNull(oc) /\ is_red(oc)
             THEN [root EXCEPT !.color = Red,
                               !.left  = SetColor(root.left, Black),
                               !.right = SetColor(root.right, Black)]
             ELSE LET grandchild          == child(c, dir)
                      opposite_grandchild == child(c, Opposite(dir))
                  IN  IF ~IsNull(grandchild) /\ is_red(grandchild)
                      THEN single_rotation(root, Opposite(dir))
                      ELSE IF ~IsNull(opposite_grandchild)
                              /\ is_red(opposite_grandchild)
                      THEN double_rotation(root, Opposite(dir))
                      ELSE root
        ELSE root

\* try_insert_key_val(parent, node, key, value, allow_update): node is the
\* subtree the reference names, size is m_size, addr the address the
\* allocation returns if a node is made.  The result carries the subtree and
\* m_size as the call leaves them, and the Result returned.
RECURSIVE try_insert_key_val(_, _, _, _, _, _, _)

\* try_insert_key_val without insert_rebalance on the way back
try_insert_key_val_NoRebalance(parent, node, key, value, allow_update, size, addr) ==
    IF IsNull(node)
    THEN [node   |-> Node(addr, parent, Red, key, value),
          size   |-> size + 1,
          result |-> "Inserted"]
    ELSE IF key < node.key
    THEN LET r == try_insert_key_val(node.id, node.left, key, value,
                                     allow_update, size, addr)
         IN  [node   |-> [node EXCEPT !.left = r.node],
              size   |-> r.size,
              result |-> r.result]
    ELSE IF key > node.key
    THEN LET r == try_insert_key_val(node.id, node.right, key, value,
                                     allow_update, size, addr)
         IN  [node   |-> [node EXCEPT !.right = r.node],
              size   |-> r.size,
              result |-> r.result]
    ELSE IF allow_update
    THEN [node   |-> [node EXCEPT !.value = value],
          size   |-> size,
          result |-> "Updated"]
    ELSE [node |-> node, size |-> size, result |-> "Failed"]

try_insert_key_val(parent, node, key, value, allow_update, size, addr) ==
    IF IsNull(node)
    THEN [node   |-> Node(addr, parent, Red, key, value),
          size   |-> size + 1,
          result |-> "Inserted"]
    ELSE IF key < node.key
    THEN LET r  == try_insert_key_val(node.id, node.left, key, value,
                                      allow_update, size, addr)
             n1 == [node EXCEPT !.left = r.node]
         IN  [node   |-> IF r.result = "Inserted"
                         THEN insert_rebalance(n1, DIR_LEFT) ELSE n1,
              size   |-> r.size,
              result |-> r.result]
    ELSE IF key > node.key
    THEN LET r  == try_insert_key_val(node.id, node.right, key, value,
                                      allow_update, size, addr)
             n1 == [node EXCEPT !.right = r.node]
         IN  [node   |-> IF r.result = "Inserted"
                         THEN insert_rebalance(n1, DIR_RIGHT) ELSE n1,
              size   |-> r.size,
              result |-> r.result]
    ELSE IF allow_update
    THEN [node   |-> [node EXCEPT !.value = value],
          size   |-> size,
          result |-> "Updated"]
    ELSE [node |-> node, size |-> size, result |-> "Failed"]

----------------------------------------------------------------------------
\* Removal

\* find_min(node): the node itself (what the returned Node* points to)
RECURSIVE find_min(_)
find_min(node) ==
    IF IsNull(node) THEN nullptr
    ELSE IF ~IsNull(node.left) THEN find_min(node.left)
    ELSE node

\* find_max walking left instead of right
find_max_WalksLeft(node) == find_min(node)

\* find_max(node)
RECURSIVE find_max(_)
find_max(node) ==
    IF IsNull(node) THEN nullptr
    ELSE IF ~IsNull(node.right) THEN find_max(node.right)
    ELSE node

\* std::move(successor->value), successor being find_max(t): the value of
\* that node of t is left moved-from
RECURSIVE MoveValueOfMax(_)
MoveValueOfMax(t) ==
    IF IsNull(t) THEN t
    ELSE IF ~IsNull(t.right) THEN [t EXCEPT !.right = MoveValueOfMax(t.right)]
    ELSE [t EXCEPT !.value = MovedFrom]

\* remove_rebalance(root, dir): the subtree as the call leaves it and the
\* bool returned
remove_rebalance(root, dir) ==
    LET odir  == Opposite(dir)
        s0    == child(root, odir)
        \* Case 1: Handle red sibling.  After the rotation the reference root
        \* names the rotated subtree, whose root is the former sibling.
        root1 == IF ~IsNull(s0) /\ is_red(s0)
                 THEN single_rotation(root, dir) ELSE root
        s     == child(root1, odir)
    IN  IF IsNull(s)
        THEN [root |-> root1, is_done |-> FALSE]
        ELSE LET left_red  == ~IsNull(s.left)  /\ is_red(s.left)
                 right_red == ~IsNull(s.right) /\ is_red(s.right)
             IN  IF ~left_red /\ ~right_red
                 THEN \* Case 2: No red children
                      [root    |-> SetChild(SetColor(root1, Black), odir,
                                            SetColor(s, Red)),
                       is_done |-> is_red(root1)]
                 ELSE \* Case 3: One or both red children
                      LET saved_color == root1.color
                          rot == IF ~IsNull(child(s, odir))
                                    /\ is_red(child(s, odir))
                                 THEN single_rotation(root1, dir)
                                 ELSE double_rotation(root1, dir)
                      IN  [root    |-> [rot EXCEPT
                                          !.color = saved_color,
                                          !.left  = SetColor(rot.left, Black),
                                          !.right = SetColor(rot.right, Black)],
                           is_done |-> TRUE]

\* try_remove_key without is_done = true at the end of a subtree
RECURSIVE try_remove_key_NotDoneAtEnd(_, _, _, _)
try_remove_key_NotDoneAtEnd(root, is_done, key, size) ==
    IF IsNull(root)
    THEN [root |-> root, is_done |-> is_done, has |-> FALSE, val |-> 0,
          size |-> size]
    ELSE IF root.key = key /\ (IsNull(root.left) \/ IsNull(root.right))
    THEN LET c     == child(root, IF IsNull(root.left)
                                  THEN DIR_RIGHT ELSE DIR_LEFT)
             recol == ~is_red(root) /\ ~IsNull(c) /\ is_red(c)
             c1    == IF recol THEN SetColor(c, Black) ELSE c
             c2    == IF IsNull(c1) THEN c1
                      ELSE [c1 EXCEPT !.parent = root.parent]
         IN  [root    |-> c2,
              is_done |-> IF is_red(root) \/ recol THEN TRUE ELSE is_done,
              has     |-> TRUE,
              val     |-> root.value,
              size    |-> size - 1]
    ELSE LET two       == root.key = key
             successor == find_max(root.left)
             root1     == IF two
                          THEN [root EXCEPT
                                   !.key   = successor.key,
                                   !.value = successor.value,
                                   !.left  = MoveValueOfMax(root.left)]
                          ELSE root
             key1      == IF two THEN successor.key ELSE key
             dir       == IF root1.key < key1 THEN DIR_RIGHT ELSE DIR_LEFT
             r         == try_remove_key_NotDoneAtEnd(child(root1, dir),
                                                      is_done, key1, size)
             root2     == SetChild(root1, dir, r.root)
             rb        == remove_rebalance(root2, dir)
         IN  [root    |-> IF ~r.is_done THEN rb.root ELSE root2,
              is_done |-> IF ~r.is_done THEN rb.is_done ELSE r.is_done,
              has     |-> IF two THEN TRUE ELSE r.has,
              val     |-> IF two THEN root.value ELSE r.val,
              size    |-> r.size]

\* try_remove_key(root, is_done, key): root is the subtree the reference
\* names, size is m_size.  The result carries the subtree, is_done and m_size
\* as the call leaves them and the optional returned (has, val).
RECURSIVE try_remove_key(_, _, _, _)
\* try_remove_key that returns the value moved into the node with two
\* children
try_remove_key_ReturnsMoved(root, is_done, key, size) ==
    IF IsNull(root)
    THEN [root |-> root, is_done |-> TRUE, has |-> FALSE, val |-> 0,
          size |-> size]
    ELSE IF root.key = key /\ (IsNull(root.left) \/ IsNull(root.right))
    THEN LET c     == child(root, IF IsNull(root.left)
                                  THEN DIR_RIGHT ELSE DIR_LEFT)
             recol == ~is_red(root) /\ ~IsNull(c) /\ is_red(c)
             c1    == IF recol THEN SetColor(c, Black) ELSE c
             c2    == IF IsNull(c1) THEN c1
                      ELSE [c1 EXCEPT !.parent = root.parent]
         IN  [root    |-> c2,
              is_done |-> IF is_red(root) \/ recol THEN TRUE ELSE is_done,
              has     |-> TRUE,
              val     |-> root.value,
              size    |-> size - 1]
    ELSE LET two       == root.key = key
             successor == find_max(root.left)
             root1     == IF two
                          THEN [root EXCEPT
                                   !.key   = successor.key,
                                   !.value = successor.value,
                                   !.left  = MoveValueOfMax(root.left)]
                          ELSE root
             key1      == IF two THEN successor.key ELSE key
             dir       == IF root1.key < key1 THEN DIR_RIGHT ELSE DIR_LEFT
             r         == try_remove_key(child(root1, dir), is_done, key1, size)
             root2     == SetChild(root1, dir, r.root)
             rb        == remove_rebalance(root2, dir)
         IN  [root    |-> IF ~r.is_done THEN rb.root ELSE root2,
              is_done |-> IF ~r.is_done THEN rb.is_done ELSE r.is_done,
              has     |-> IF two THEN TRUE ELSE r.has,
              val     |-> IF two THEN successor.value ELSE r.val,
              size    |-> r.size]

\* try_remove_key without the branch that makes a Red child Black
try_remove_key_NoRecolor(root, is_done, key, size) ==
    IF IsNull(root)
    THEN [root |-> root, is_done |-> TRUE, has |-> FALSE, val |-> 0,
          size |-> size]
    ELSE IF root.key = key /\ (IsNull(root.left) \/ IsNull(root.right))
    THEN LET c     == child(root, IF IsNull(root.left)
                                  THEN DIR_RIGHT ELSE DIR_LEFT)
             recol == FALSE
             c1    == IF recol THEN SetColor(c, Black) ELSE c
             c2    == IF IsNull(c1) THEN c1
                      ELSE [c1 EXCEPT !.parent = root.parent]
         IN  [root    |-> c2,
              is_done |-> IF is_red(root) \/ recol THEN TRUE ELSE is_done,
              has     |-> TRUE,
              val     |-> root.value,
              size    |-> size - 1]
    ELSE LET two       == root.key = key
             successor == find_max(root.left)
             root1     == IF two
                          THEN [root EXCEPT
                                   !.key   = successor.key,
                                   !.value = successor.value,
                                   !.left  = MoveValueOfMax(root.left)]
                          ELSE root
             key1      == IF two THEN successor.key ELSE key
             dir       == IF root1.key < key1 THEN DIR_RIGHT ELSE DIR_LEFT
             r         == try_remove_key(child(root1, dir), is_done, key1, size)
             root2     == SetChild(root1, dir, r.root)
             rb        == remove_rebalance(root2, dir)
         IN  [root    |-> IF ~r.is_done THEN rb.root ELSE root2,
              is_done |-> IF ~r.is_done THEN rb.is_done ELSE r.is_done,
              has     |-> IF two THEN TRUE ELSE r.has,
              val     |-> IF two THEN root.value ELSE r.val,
              size    |-> r.size]

try_remove_key(root, is_done, key, size) ==
    IF IsNull(root)
    THEN [root |-> root, is_done |-> TRUE, has |-> FALSE, val |-> 0,
          size |-> size]
    ELSE IF root.key = key /\ (IsNull(root.left) \/ IsNull(root.right))
    THEN LET c     == child(root, IF IsNull(root.left)
                                  THEN DIR_RIGHT ELSE DIR_LEFT)
             recol == ~is_red(root) /\ ~IsNull(c) /\ is_red(c)
             c1    == IF recol THEN SetColor(c, Black) ELSE c
             c2    == IF IsNull(c1) THEN c1
                      ELSE [c1 EXCEPT !.parent = root.parent]
         IN  [root    |-> c2,
              is_done |-> IF is_red(root) \/ recol THEN TRUE ELSE is_done,
              has     |-> TRUE,
              val     |-> root.value,
              size    |-> size - 1]
    ELSE LET two       == root.key = key
             successor == find_max(root.left)
             root1     == IF two
                          THEN [root EXCEPT
                                   !.key   = successor.key,
                                   !.value = successor.value,
                                   !.left  = MoveValueOfMax(root.left)]
                          ELSE root
             key1      == IF two THEN successor.key ELSE key
             dir       == IF root1.key < key1 THEN DIR_RIGHT ELSE DIR_LEFT
             r         == try_remove_key(child(root1, dir), is_done, key1, size)
             root2     == SetChild(root1, dir, r.root)
             rb        == remove_rebalance(root2, dir)
         IN  [root    |-> IF ~r.is_done THEN rb.root ELSE root2,
              is_done |-> IF ~r.is_done THEN rb.is_done ELSE r.is_done,
              has     |-> IF two THEN TRUE ELSE r.has,
              val     |-> IF two THEN root.value ELSE r.val,
              size    |-> r.size]

----------------------------------------------------------------------------
\* Lookup

\* try_find_key(node, key): the optional returned (has, val)
RECURSIVE try_find_key(_, _)

\* try_find_key without the search to the right
try_find_key_NoRight(node, key) ==
    IF IsNull(node) THEN [has |-> FALSE, val |-> 0]
    ELSE IF key < node.key THEN try_find_key(node.left, key)
    ELSE IF key > node.key THEN [has |-> FALSE, val |-> 0]
    ELSE [has |-> TRUE, val |-> node.value]

try_find_key(node, key) ==
    IF IsNull(node) THEN [has |-> FALSE, val |-> 0]
    ELSE IF key < node.key THEN try_find_key(node.left, key)
    ELSE IF key > node.key THEN try_find_key(node.right, key)
    ELSE [has |-> TRUE, val |-> node.value]

----------------------------------------------------------------------------
\* validate(): the checks in the order the code runs them.  An assert that
\* fails ends the program; failed is the text of the first assert to fail,
\* "none" if none does.

RECURSIVE validate_red_black_tree(_)
validate_red_black_tree(root) ==
    IF IsNull(root)
    THEN [valid |-> TRUE, height |-> 1, failed |-> "none"]
    ELSE LET left_child  == root.left
             right_child == root.right
             left_red    == ~IsNull(left_child)  /\ is_red(left_child)
             right_red   == ~IsNull(right_child) /\ is_red(right_child)
         IN  IF is_red(root) /\ (left_red \/ right_red)
             THEN [valid |-> FALSE, height |-> 0, failed |-> "Red violation"]
             ELSE LET l == validate_red_black_tree(left_child)
                      r == validate_red_black_tree(right_child)
                  IN  IF l.failed # "none" THEN l
                      ELSE IF r.failed # "none" THEN r
                      ELSE IF \/ ~IsNull(left_child)
                                 /\ left_child.key >= root.key
                              \/ ~IsNull(right_child)
                                 /\ right_child.key <= root.key
                      THEN [valid |-> FALSE, height |-> 0,
                            failed |-> "Binary tree violation"]
                      ELSE IF l.height # 0 /\ r.height # 0
                              /\ l.height # r.height
                      THEN [valid |-> FALSE, height |-> 0,
                            failed |-> "Black violation"]
                      ELSE IF l.height # 0 /\ r.height # 0
                      THEN [valid  |-> TRUE,
                            height |-> IF is_red(root) THEN l.height
                                       ELSE l.height + 1,
                            failed |-> "none"]
                      ELSE [valid |-> FALSE, height |-> 0, failed |-> "none"]

\* validate_parents(node, expected_parent): TRUE if no assert fails
RECURSIVE validate_parents(_, _)
validate_parents(node, expected_parent) ==
    IF IsNull(node) THEN TRUE
    ELSE /\ node.parent = expected_parent
         /\ validate_parents(node.left, node.id)
         /\ validate_parents(node.right, node.id)

\* validate() on a tree with the given root and size: "ok" if it returns,
\* else the assert that fails
validate(root, size) ==
    IF IsNull(root)
    THEN IF size = 0 THEN "ok" ELSE "size() == 0"
    ELSE IF size = 0 THEN "size() != 0"
    ELSE IF ~validate_parents(root, 0) THEN "node->parent == expected_parent"
    ELSE LET r == validate_red_black_tree(root)
         IN  IF r.failed # "none" THEN r.failed
             ELSE IF ~r.valid \/ r.height = 0 THEN "Invalid Red-Black Tree"
             ELSE "ok"

----------------------------------------------------------------------------
\* The addresses in use, and the one an allocation returns

RECURSIVE AddrsOf(_)
AddrsOf(t) ==
    IF IsNull(t) THEN {} ELSE {t.id} \cup AddrsOf(t.left) \cup AddrsOf(t.right)

\* std::make_unique<Node> for a node that will hold key: some address that no
\* live node has.  The program only ever compares addresses for equality, so
\* which free address it is cannot be observed; the model takes the number
\* of the key when that address is free and the smallest free one otherwise
\* (a node's address and its key differ once a removal has overwritten the
\* key of a node with two children).
NewAddr(t, key) ==
    IF key \notin AddrsOf(t) THEN key
    ELSE CHOOSE a \in 1..(Cardinality(AddrsOf(t)) + 1) :
             a \notin AddrsOf(t) /\ \A b \in 1..a : b = a \/ b \in AddrsOf(t)

----------------------------------------------------------------------------
\* The finite map the tree is compared with

AKeys == {e[1] : e \in amap}

AHas(key) == key \in AKeys

AGet(key) == (CHOOSE e \in amap : e[1] = key)[2]

AWithout(key) == {e \in amap : e[1] # key}

----------------------------------------------------------------------------
\* The public calls

NoCall == [op |-> "none", key |-> 0, value |-> 0, result |-> "void", out |-> 0]

Init ==
    /\ m_root = nullptr
    /\ m_size = 0
    /\ last = NoCall
    /\ amap = {}
    /\ alast = [result |-> "void", out |-> 0]

\* insert(key, value) (allow_update = FALSE) and
\* insert_or_update(key, value) (allow_update = TRUE) on a tree with the
\* given root and size: the root and size they leave and the Result returned
\* InsertResult without forcing the root Black
InsertResult_NoBlackRoot(root, size, key, value, allow_update) ==
    LET r == try_insert_key_val(0, root, key, value, allow_update, size,
                                NewAddr(root, key))
    IN  [root |-> r.node, size |-> r.size, result |-> r.result]

\* InsertResult with ++m_size lost
InsertResult_NoCount(root, size, key, value, allow_update) ==
    LET r == try_insert_key_val(0, root, key, value, allow_update, size,
                                NewAddr(root, key))
    IN  [root   |-> IF r.result = "Inserted"
                    THEN SetColor(r.node, Black) ELSE r.node,
         size   |-> size,
         result |-> r.result]

\* InsertResult writing the value of a present key also when allow_update
\* is false
InsertResult_WritesOnFailed(root, size, key, value, allow_update) ==
    LET r == try_insert_key_val(0, root, key, value, TRUE, size,
                                NewAddr(root, key))
    IN  [root   |-> IF r.result = "Inserted"
                    THEN SetColor(r.node, Black) ELSE r.node,
         size   |-> r.size,
         result |-> IF r.result = "Updated" /\ ~allow_update
                    THEN "Failed" ELSE r.result]

\* InsertResult never overwriting the value of a present key
InsertResult_NeverUpdates(root, size, key, value, allow_update) ==
    LET r == try_insert_key_val(0, root, key, value, FALSE, size,
                                NewAddr(root, key))
    IN  [root   |-> IF r.result = "Inserted"
                    THEN SetColor(r.node, Black) ELSE r.node,
         size   |-> r.size,
         result |-> IF r.result = "Failed" /\ allow_update
                    THEN "Updated" ELSE r.result]

\* InsertResult taking allow_update for true in every call
InsertResult_AlwaysUpdates(root, size, key, value, allow_update) ==
    LET r == try_insert_key_val(0, root, key, value, TRUE, size,
                                NewAddr(root, key))
    IN  [root   |-> IF r.result = "Inserted"
                    THEN SetColor(r.node, Black) ELSE r.node,
         size   |-> r.size,
         result |-> r.result]

InsertResult(root, size, key, value, allow_update) ==
    LET r == try_insert_key_val(0, root, key, value, allow_update, size,
                                NewAddr(root, key))
    IN  [root   |-> IF r.result = "Inserted"
                    THEN SetColor(r.node, Black) ELSE r.node,
         size   |-> r.size,
         result |-> r.result]

InsertCall(key, value, allow_update) ==
    LET r == InsertResult(m_root, m_size, key, value, allow_update)
    IN  /\ m_root' = r.root
        /\ m_size' = r.size
        /\ last' = [op     |-> IF allow_update
                               THEN "insert_or_update" ELSE "insert",
                    key    |-> key,
                    value  |-> value,
                    result |-> r.result,
                    out    |-> 0]
        /\ amap' = IF ~AHas(key) \/ allow_update
                   THEN AWithout(key) \cup {<<key, value>>} ELSE amap
        /\ alast' = [result |-> IF ~AHas(key) THEN "Inserted"
                                ELSE IF allow_update THEN "Updated"
                                ELSE "Failed",
                     out    |-> 0]

\* remove(key) without --m_size
RemoveResult_KeepsSize(root, size, key) ==
    LET r == try_remove_key(root, FALSE, key, size)
    IN  [root |-> IF r.has /\ ~IsNull(r.root)
                  THEN SetColor(r.root, Black) ELSE r.root,
         size |-> size,
         has  |-> r.has,
         val  |-> r.val]

\* remove(key) on a tree with the given root and size: the root and size it
\* leaves and the optional returned (has, val)
RemoveResult(root, size, key) ==
    LET r == try_remove_key(root, FALSE, key, size)
    IN  [root |-> IF r.has /\ ~IsNull(r.root)
                  THEN SetColor(r.root, Black) ELSE r.root,
         size |-> r.size,
         has  |-> r.has,
         val  |-> r.val]

RemoveCall(key) ==
    LET r == RemoveResult(m_root, m_size, key)
    IN  /\ m_root' = r.root
        /\ m_size' = r.size
        /\ last' = [op     |-> "remove",
                    key    |-> key,
                    value  |-> 0,
                    result |-> IF r.has THEN "value" ELSE "nullopt",
                    out    |-> r.val]
        /\ amap' = AWithout(key)
        /\ alast' = IF AHas(key)
                    THEN [result |-> "value", out |-> AGet(key)]
                    ELSE [result |-> "nullopt", out |-> 0]

\* find(key)
FindCall(key) ==
    LET r == try_find_key(m_root, key)
    IN  /\ last' = [op     |-> "find",
                    key    |-> key,
                    value  |-> 0,
                    result |-> IF r.has THEN "value" ELSE "nullopt",
                    out    |-> r.val]
        /\ alast' = IF AHas(key)
                    THEN [result |-> "value", out |-> AGet(key)]
                    ELSE [result |-> "nullopt", out |-> 0]
        /\ UNCHANGED <<m_root, m_size, amap>>

\* clear() without m_size = 0
clear_KeepsSize ==
    /\ m_root' = nullptr
    /\ m_size' = m_size
    /\ last' = [op |-> "clear", key |-> 0, value |-> 0, result |-> "void",
                out |-> 0]
    /\ amap' = {}
    /\ alast' = [result |-> "void", out |-> 0]

\* clear() without m_root = nullptr
clear_KeepsRoot ==
    /\ m_root' = m_root
    /\ m_size' = 0
    /\ last' = [op |-> "clear", key |-> 0, value |-> 0, result |-> "void",
                out |-> 0]
    /\ amap' = {}
    /\ alast' = [result |-> "void", out |-> 0]

\* clear()
clear ==
    /\ m_root' = nullptr
    /\ m_size' = 0
    /\ last' = [NoCall EXCEPT !.op = "clear"]
    /\ amap' = {}
    /\ alast' = [result |-> "void", out |-> 0]

insert == \E k \in Keys, v \in Values : InsertCall(k, v, FALSE)

insert_or_update == \E k \in Keys, v \in Values : InsertCall(k, v, TRUE)

remove == \E k \in Keys : RemoveCall(k)

find == \E k \in Keys : FindCall(k)

Next == insert \/ insert_or_update \/ remove \/ find \/ clear

Spec == Init /\ [][Next]_vars

\* The same calls on the keys and values of SpecShape
insertShape ==
    \E k \in ShapeKeys, v \in ShapeValues : InsertCall(k, v, FALSE)

insert_or_updateShape ==
    \E k \in ShapeKeys, v \in ShapeValues : InsertCall(k, v, TRUE)

removeShape == \E k \in ShapeKeys : RemoveCall(k)

findShape == \E k \in ShapeKeys : FindCall(k)

NextShape ==
    insertShape \/ insert_or_updateShape \/ removeShape \/ findShape \/ clear

SpecShape == Init /\ [][NextShape]_vars


----------------------------------------------------------------------------
\* Properties of a tree

\* The nodes of a tree (each with the subtrees it owns)
RECURSIVE NodesOf(_)
NodesOf(t) ==
    IF IsNull(t) THEN {} ELSE {t} \cup NodesOf(t.left) \cup NodesOf(t.right)

RECURSIVE KeysOf(_)
KeysOf(t) ==
    IF IsNull(t) THEN {} ELSE {t.key} \cup KeysOf(t.left) \cup KeysOf(t.right)

RECURSIVE CountNodes(_)
CountNodes(t) ==
    IF IsNull(t) THEN 0 ELSE 1 + CountNodes(t.left) + CountNodes(t.right)

\* The numbers of Black nodes on the paths from t down to an empty position
RECURSIVE BlackCounts(_)
BlackCounts(t) ==
    IF IsNull(t) THEN {0}
    ELSE {n + (IF is_black(t) THEN 1 ELSE 0) :
              n \in BlackCounts(t.left) \cup BlackCounts(t.right)}

EqualBlackHeights(t) == Cardinality(BlackCounts(t)) = 1

NoRedRed(t) ==
    \A n \in NodesOf(t) :
        is_red(n) => /\ IsNull(n.left)  \/ ~is_red(n.left)
                     /\ IsNull(n.right) \/ ~is_red(n.right)

BSTOrder(t) ==
    \A n \in NodesOf(t) :
        /\ \A k \in KeysOf(n.left)  : k < n.key
        /\ \A k \in KeysOf(n.right) : k > n.key

RootBlack(t) == IsNull(t) \/ is_black(t)

ParentsMatch(t) ==
    /\ IsNull(t) \/ t.parent = 0
    /\ \A n \in NodesOf(t) :
        /\ IsNull(n.left)  \/ n.left.parent = n.id
        /\ IsNull(n.right) \/ n.right.parent = n.id

\* A node whose address is not the number of its key: the key of a node
\* with two children has been overwritten by a removal
Overwritten(t) == \E n \in NodesOf(t) : n.id # n.key

----------------------------------------------------------------------------
\* Traversal and iterators.  A Node* is the address of a node of the tree
\* (0 for nullptr); heap is the tree the address points into.

\* *node, for a Node* that is not null
Deref(heap, node) == CHOOSE n \in NodesOf(heap) : n.id = node

\* visit_inorder(node, visitor).  The visitor returns false at the keys of
\* stop and true at all others; seen is the sequence of (key, value) pairs it
\* has been called with, ret the bool returned.
RECURSIVE visit_inorder_NodeFirst(_, _)
\* visit_inorder calling the visitor before the left subtree
visit_inorder_NodeFirst(node, stop) ==
    IF IsNull(node) THEN [ret |-> TRUE, seen |-> <<>>]
    ELSE LET here == <<node.key, node.value>>
             l    == visit_inorder_NodeFirst(node.left, stop)
             r    == visit_inorder_NodeFirst(node.right, stop)
         IN  IF node.key \in stop THEN [ret |-> FALSE, seen |-> <<here>>]
             ELSE IF ~l.ret
             THEN [ret |-> FALSE, seen |-> <<here>> \o l.seen]
             ELSE [ret |-> r.ret, seen |-> <<here>> \o l.seen \o r.seen]

RECURSIVE visit_inorder(_, _)
visit_inorder(node, stop) ==
    IF IsNull(node) THEN [ret |-> TRUE, seen |-> <<>>]
    ELSE LET l    == visit_inorder(node.left, stop)
             here == <<node.key, node.value>>
             r    == visit_inorder(node.right, stop)
         IN  IF ~l.ret THEN [ret |-> FALSE, seen |-> l.seen]
             ELSE IF node.key \in stop
             THEN [ret |-> FALSE, seen |-> Append(l.seen, here)]
             ELSE [ret |-> r.ret, seen |-> Append(l.seen, here) \o r.seen]

\* visit_preorder going on after the visitor has returned false
RECURSIVE visit_preorder_GoesOn(_, _)
visit_preorder_GoesOn(node, stop) ==
    IF IsNull(node) THEN [ret |-> TRUE, seen |-> <<>>]
    ELSE LET here == <<node.key, node.value>>
             l    == visit_preorder_GoesOn(node.left, stop)
             r    == visit_preorder_GoesOn(node.right, stop)
         IN  [ret  |-> node.key \notin stop /\ l.ret /\ r.ret,
              seen |-> <<here>> \o l.seen \o r.seen]

\* visit_preorder(node, visitor)
RECURSIVE visit_preorder(_, _)
visit_preorder(node, stop) ==
    IF IsNull(node) THEN [ret |-> TRUE, seen |-> <<>>]
    ELSE LET here == <<node.key, node.value>>
             l    == visit_preorder(node.left, stop)
             r    == visit_preorder(node.right, stop)
         IN  IF node.key \in stop THEN [ret |-> FALSE, seen |-> <<here>>]
             ELSE IF ~l.ret
             THEN [ret |-> FALSE, seen |-> <<here>> \o l.seen]
             ELSE [ret |-> r.ret, seen |-> <<here>> \o l.seen \o r.seen]

\* visit_postorder(node, visitor)
RECURSIVE visit_postorder(_, _)
visit_postorder(node, stop) ==
    IF IsNull(node) THEN [ret |-> TRUE, seen |-> <<>>]
    ELSE LET l    == visit_postorder(node.left, stop)
             r    == visit_postorder(node.right, stop)
             here == <<node.key, node.value>>
         IN  IF ~l.ret THEN [ret |-> FALSE, seen |-> l.seen]
             ELSE IF ~r.ret
             THEN [ret |-> FALSE, seen |-> l.seen \o r.seen]
             ELSE [ret  |-> node.key \notin stop,
                   seen |-> Append(l.seen \o r.seen, here)]

\* The while loop of next_node: up while the node is the right child of its
\* parent; the parent reached is returned
RECURSIVE next_node_Climb(_, _)
next_node_Climb(heap, node) ==
    LET n == Deref(heap, node)
    IN  IF n.parent # 0 /\ node = Deref(heap, n.parent).right.id
        THEN next_node_Climb(heap, n.parent)
        ELSE n.parent

\* next_node without the climb: the parent of a node with no right child
next_node_NoClimb(heap, node) ==
    IF node = 0 THEN 0
    ELSE LET n == Deref(heap, node)
         IN  IF ~IsNull(n.right) THEN find_min(n.right).id
             ELSE n.parent

next_node(heap, node) ==
    IF node = 0 THEN 0
    ELSE LET n == Deref(heap, node)
         IN  IF ~IsNull(n.right) THEN find_min(n.right).id
             ELSE next_node_Climb(heap, node)

\* The while loop of prev_node: up while the node is the left child of its
\* parent
RECURSIVE prev_node_Climb(_, _)
prev_node_Climb(heap, node) ==
    LET n == Deref(heap, node)
    IN  IF n.parent # 0 /\ node = Deref(heap, n.parent).left.id
        THEN prev_node_Climb(heap, n.parent)
        ELSE n.parent

\* prev_node without the climb
prev_node_NoClimb(heap, node) ==
    IF node = 0 THEN 0
    ELSE LET n == Deref(heap, node)
         IN  IF ~IsNull(n.left) THEN find_max(n.left).id
             ELSE n.parent

prev_node(heap, node) ==
    IF node = 0 THEN 0
    ELSE LET n == Deref(heap, node)
         IN  IF ~IsNull(n.left) THEN find_max(n.left).id
             ELSE prev_node_Climb(heap, node)

\* An InorderIter: m_tree is the tree it was made for (*m_tree, as the root
\* it owns: there is one RBTree, so equal trees are the same tree), m_node the
\* address of its current node
InorderIter(tree, start) == [m_tree |-> tree, m_node |-> start]

begin(root) == InorderIter(root, find_min(root).id)

end(root) == InorderIter(root, 0)

\* ++iter that goes from end() to the first node, as --iter goes to the last
operator_inc_WrapsAround(iter) ==
    IF iter.m_node = 0
    THEN [iter EXCEPT !.m_node = find_min(iter.m_tree).id]
    ELSE [iter EXCEPT !.m_node = next_node(iter.m_tree, iter.m_node)]

\* ++iter
operator_inc(iter) ==
    [iter EXCEPT !.m_node = next_node(iter.m_tree, iter.m_node)]

\* --iter that does nothing at end()
operator_dec_StaysAtEnd(iter) ==
    [iter EXCEPT !.m_node = prev_node(iter.m_tree, iter.m_node)]

\* --iter
operator_dec(iter) ==
    IF iter.m_node = 0
    THEN [iter EXCEPT !.m_node = find_max(iter.m_tree).id]
    ELSE [iter EXCEPT !.m_node = prev_node(iter.m_tree, iter.m_node)]

\* iter == rhs
operator_eq(iter, rhs) == iter.m_tree = rhs.m_tree /\ iter.m_node = rhs.m_node

\* *iter, for an iterator that is not at end()
operator_star(iter) ==
    LET n == Deref(iter.m_tree, iter.m_node) IN <<n.key, n.value>>

\* The visitors of one traversal: a visitor that always returns true
\* (stop = {}) and, for each key, one that returns false at that key
Visitors == {{}} \cup {{k} : k \in ShapeKeys}

\* visit_inorder(visitor) on the tree: last.out is the sequence of (key,
\* value) pairs the visitor was called with
visit_inorderCall(stop) ==
    /\ last' = [op     |-> "visit_inorder",
                key    |-> IF stop = {} THEN 0 ELSE CHOOSE k \in stop : TRUE,
                value  |-> 0,
                result |-> "void",
                out    |-> visit_inorder(m_root, stop).seen]
    /\ alast' = [result |-> "void", out |-> 0]
    /\ UNCHANGED <<m_root, m_size, amap>>

\* An iterator of the tree is kept in last: last.result = "iterator",
\* last.out is its m_node and last.from the m_node it had before the call
\* (0 for begin() and end()).  Every call that changes the tree overwrites
\* last, so no iterator outlives a change of the tree.
IterCall(op, from, iter) ==
    /\ last' = [op |-> op, key |-> 0, value |-> 0, result |-> "iterator",
                out |-> iter.m_node, from |-> from]
    /\ alast' = [result |-> "void", out |-> 0]
    /\ UNCHANGED <<m_root, m_size, amap>>

HasIter == last.result = "iterator"

TheIter == InorderIter(m_root, last.out)

visit == \E stop \in Visitors : visit_inorderCall(stop)

iter_begin == IterCall("begin", 0, begin(m_root))

iter_end == IterCall("end", 0, end(m_root))

iter_inc == HasIter /\ IterCall("++", last.out, operator_inc(TheIter))

iter_dec == HasIter /\ IterCall("--", last.out, operator_dec(TheIter))

NextIter ==
    \/ insertShape
    \/ removeShape
    \/ visit
    \/ iter_begin
    \/ iter_end
    \/ iter_inc
    \/ iter_dec

SpecIter == Init /\ [][NextIter]_vars

\* visit_preorder(visitor) and visit_postorder(visitor) on the tree
visit_preorderCall(stop) ==
    /\ last' = [op     |-> "visit_preorder",
                key    |-> IF stop = {} THEN 0 ELSE CHOOSE k \in stop : TRUE,
                value  |-> 0,
                result |-> "void",
                out    |-> visit_preorder(m_root, stop).seen]
    /\ alast' = [result |-> "void", out |-> 0]
    /\ UNCHANGED <<m_root, m_size, amap>>

visit_postorderCall(stop) ==
    /\ last' = [op     |-> "visit_postorder",
                key    |-> IF stop = {} THEN 0 ELSE CHOOSE k \in stop : TRUE,
                value  |-> 0,
                result |-> "void",
                out    |-> visit_postorder(m_root, stop).seen]
    /\ alast' = [result |-> "void", out |-> 0]
    /\ UNCHANGED <<m_root, m_size, amap>>

visit_pre == \E stop \in Visitors : visit_preorderCall(stop)

visit_post == \E stop \in Visitors : visit_postorderCall(stop)

----------------------------------------------------------------------------
\* SpecInsert: insert and insert_or_update, from every tree on keys of
\* 1..MaxShapeKey that satisfies the structural invariants 1-5.

\* Every tree of search-tree shape on the key set S, in every colouring, whose
\* root has parent address p; each node at the address of its key's number
\* and holding the value 1.
RECURSIVE ShapesOn(_, _)
ShapesOn(S, p) ==
    IF S = {} THEN {nullptr}
    ELSE UNION {
        {[id |-> k, key |-> k, value |-> 1, parent |-> p,
          left |-> l, right |-> r, color |-> c] :
            l \in ShapesOn({x \in S : x < k}, k),
            r \in ShapesOn({x \in S : x > k}, k),
            c \in {Red, Black}}
        : k \in S}

ContentsOf(t) == {<<n.key, n.value>> : n \in NodesOf(t)}

StructurallyValid(t) ==
    /\ BSTOrder(t)
    /\ NoRedRed(t)
    /\ EqualBlackHeights(t)
    /\ RootBlack(t)
    /\ ParentsMatch(t)

InitInsert ==
    /\ m_root \in {t \in UNION {ShapesOn(S, 0) : S \in SUBSET ShapeKeys} :
                       StructurallyValid(t)}
    /\ m_size = CountNodes(m_root)
    /\ last = NoCall
    /\ amap = ContentsOf(m_root)
    /\ alast = [result |-> "void", out |-> 0]

NextInsert == insertShape \/ insert_or_updateShape

SpecInsert == InitInsert /\ [][NextInsert]_vars

\* SpecVisit: the three traversals, each with every visitor of Visitors, on
\* the trees SpecInsert starts from
NextVisit == visit \/ visit_pre \/ visit_post

SpecVisit == InitInsert /\ [][NextVisit]_vars

\* SpecBuild: trees built by insert calls alone, from the empty tree.
\* insertBuild inserts any key of 1..MaxBuildKey; insertSorted inserts the
\* next key above a tree that holds exactly the keys 1..m_size, so that the
\* run of insertSorted from the empty tree is the sorted input of the test
\* (its keys 0..14 are the keys 1..MaxSorted here).
MaxBuildKey == 6

MaxSorted == 15

insertBuild == \E k \in 1..MaxBuildKey : InsertCall(k, 1, FALSE)

insertSorted ==
    /\ m_size < MaxSorted
    /\ KeysOf(m_root) = 1..m_size
    /\ InsertCall(m_size + 1, 1, FALSE)

NextBuild == insertBuild \/ insertSorted

SpecBuild == Init /\ [][NextBuild]_vars

----------------------------------------------------------------------------
\* SpecScenario: the calls of rbtree_tests from its third block on, on the
\* empty tree the clear() before leaves, each value drawn from Values.

\* insert: 8 -> 3 -> 10 -> 1 -> 6 -> 14 -> 4 -> 7 -> 13
ScenarioKeys == <<8, 3, 10, 1, 6, 14, 4, 7, 13>>

\* The key inserted again and updated
ScenarioExisting == 1

\* The keys looked up and then removed, in this order
ScenarioRemoved == <<8, 4, 1, 13>>

\* The key that was never inserted
ScenarioUnknown == 42

\* The number of calls of the test that have returned, read from the last
\* call and the size: 1..9 the inserts, 10 the insert of the existing key, 11
\* its insert_or_update, 12 the finds, 13 the remove of the unknown key,
\* 14..17 the removes, 18..21 the same removes again.
ScenarioAt ==
    CASE last.op = "none" -> 0
      [] last.op = "insert" /\ last.result = "Inserted" -> m_size
      [] last.op = "insert" /\ last.result # "Inserted" -> 10
      [] last.op = "insert_or_update" -> 11
      [] last.op = "find" -> 12
      [] last.op = "remove" /\ last.key = ScenarioUnknown -> 13
      [] last.op = "remove" /\ last.key # ScenarioUnknown
                            /\ last.result = "value" -> 22 - m_size
      [] OTHER ->
            17 + (CHOOSE i \in 1..4 : ScenarioRemoved[i] = last.key)

scenario_insert ==
    /\ ScenarioAt < 9
    /\ \E k \in {ScenarioKeys[ScenarioAt + 1]}, v \in Values :
          InsertCall(k, v, FALSE)

scenario_insert_existing ==
    /\ ScenarioAt = 9
    /\ \E k \in {ScenarioExisting}, v \in Values : InsertCall(k, v, FALSE)

scenario_update_existing ==
    /\ ScenarioAt = 10
    /\ \E k \in {ScenarioExisting}, v \in Values : InsertCall(k, v, TRUE)

scenario_find ==
    /\ ScenarioAt = 11
    /\ \E k \in {ScenarioRemoved[i] : i \in 1..4} : FindCall(k)

\* The key of the remove the test is at: the unknown key, then the removed
\* keys, then the removed keys again
ScenarioRemoveKey ==
    IF ScenarioAt = 12 THEN ScenarioUnknown
    ELSE IF ScenarioAt \in 13..16 THEN ScenarioRemoved[ScenarioAt - 12]
    ELSE ScenarioRemoved[ScenarioAt - 16]

scenario_remove ==
    /\ ScenarioAt \in 12..20
    /\ \E k \in {ScenarioRemoveKey} : RemoveCall(k)

NextScenario ==
    \/ scenario_insert
    \/ scenario_insert_existing
    \/ scenario_update_existing
    \/ scenario_find
    \/ scenario_remove

SpecScenario == Init /\ [][NextScenario]_vars

----------------------------------------------------------------------------
\* SpecValidate: validate() on trees of Node objects whether or not the
\* public calls can build them: every arrangement of the keys of every
\* subset of 1..MaxValidateKey in every colouring with every parent
\* reference the structural parent, and every such tree on the keys of
\* 1..MaxParentKey with each parent reference either the structural parent
\* or another address.

MaxValidateKey == 4

MaxParentKey == 3

\* The trees on the key set S whose root has the structural parent p; wrong
\* is the set of the other addresses a parent reference may hold
RECURSIVE TreesOn(_, _, _)
TreesOn(S, p, wrong) ==
    IF S = {} THEN {nullptr}
    ELSE UNION { UNION {
        {[id |-> k, key |-> k, value |-> 1, parent |-> q,
          left |-> l, right |-> r, color |-> c] :
            l \in TreesOn(L, k, wrong),
            r \in TreesOn((S \ {k}) \ L, k, wrong),
            c \in {Red, Black},
            q \in {p} \cup wrong}
        : L \in SUBSET (S \ {k})} : k \in S}

InitValidate ==
    /\ m_root \in
          UNION {TreesOn(S, 0, {}) : S \in SUBSET (1..MaxValidateKey)}
          \cup UNION {TreesOn(S, 0, {MaxParentKey + 1}) :
                          S \in SUBSET (1..MaxParentKey)}
    /\ m_size = CountNodes(m_root)
    /\ last = NoCall
    /\ amap = ContentsOf(m_root)
    /\ alast = [result |-> "void", out |-> 0]

\* validate(): last.result is "ok" if it returns, else the assert that fails
validateCall ==
    /\ last' = [NoCall EXCEPT !.op = "validate",
                              !.result = validate(m_root, m_size)]
    /\ alast' = [result |-> "void", out |-> 0]
    /\ UNCHANGED <<m_root, m_size, amap>>

NextValidate == validateCall

SpecValidate == InitValidate /\ [][NextValidate]_vars

----------------------------------------------------------------------------
\* C1: after every insert, insert_or_update, remove and clear on an
\* initially empty tree, every path from the root to an empty child position
\* holds the same number of Black nodes.
C1_EqualBlackHeights == EqualBlackHeights(m_root)

\* C2: after every insert, insert_or_update, remove and clear on an
\* initially empty tree, no Red node has a Red child.
C2_NoRedRed == NoRedRed(m_root)

\* C3: after every call, for every node every key of its left subtree is
\* smaller and every key of its right subtree is larger than its own key.
C3_BSTOrder == BSTOrder(m_root)

C3_Witness ==
    /\ last.op = "remove" /\ last.result = "value"
    /\ m_size >= 3
    /\ Overwritten(m_root)

\* C4: after every public call returns, the root, if there is one, is Black.
C4_RootBlack == RootBlack(m_root)

C4_Witness ==
    /\ last.op \in {"insert", "insert_or_update"} /\ last.result = "Inserted"
    /\ m_size >= 4
    /\ m_root.key = last.key

\* C5: after every call, the parent reference of every node that is not the
\* root is the node holding it as left or right child, and the root's parent
\* reference is null.
C5_ParentsMatch == ParentsMatch(m_root)

C5_Witness ==
    /\ last.op = "remove" /\ last.result = "value"
    /\ m_size = 4
    /\ ~IsNull(m_root) /\ ~IsNull(m_root.left) /\ ~IsNull(m_root.right)

\* C6: after every call, size() is the number of nodes reachable from the
\* root, and is_empty() is true exactly when size() is 0.
C6_SizeIsCount ==
    /\ m_size = CountNodes(m_root)
    /\ IsNull(m_root) <=> m_size = 0

C6_Witness ==
    /\ last.op = "remove" /\ last.result = "value" /\ m_size = 3
    /\ Overwritten(m_root)

\* C7: after every insert, insert_or_update, remove and clear on an
\* initially empty tree, validate() returns without any assert failing.
C7_ValidatePasses == validate(m_root, m_size) = "ok"

\* C8: from any tree that satisfies the invariants 1-5 (search-tree order,
\* no Red node with a Red child, equal Black counts, Black root, parent
\* references), one insert or insert_or_update with any key leaves a tree
\* that satisfies all five again; so every tree built by inserts alone does.
C8_InsertKeepsValid == StructurallyValid(m_root)

C8_Witness ==
    /\ last.op \in {"insert", "insert_or_update"}
    /\ last.result = "Inserted"
    /\ m_size = 5
    /\ \E n \in NodesOf(m_root) : is_red(n) /\ ~IsNull(n.left) /\ ~IsNull(n.right)

\* C9: the tree refines a finite map from keys to values: on every sequence
\* of insert, insert_or_update, remove, find and clear, each call returns on
\* the tree what it returns on the map (Inserted, Updated or Failed; the
\* removed or found value, or absence), size() is the number of keys of the
\* map, and find leaves the tree as it was.
C9_SameOutcome ==
    /\ last.result = alast.result
    /\ last.out = alast.out
    /\ m_size = Cardinality(AKeys)

C9_Refines ==
    [][/\ C9_SameOutcome
       /\ C9_SameOutcome'
       /\ last'.op = "find" => m_root' = m_root /\ m_size' = m_size]_vars

C9_Witness ==
    /\ last.op = "find" /\ last.result = "value" /\ last.out = 2
    /\ Overwritten(m_root)
    /\ m_size = 3

\* C10: for any tree and any key k not in it, insert(k, v) and
\* insert_or_update(k, v) return Inserted and add exactly 1 to size(); a
\* find(k) right after returns v, and after a remove(k) find(k) returns
\* absence.
C10_InsertThenFind ==
    [][(/\ last'.op \in {"insert", "insert_or_update"}
        /\ last'.key \notin KeysOf(m_root))
       => LET k  == last'.key
              rm == RemoveResult(m_root', m_size', k)
          IN  /\ last'.result = "Inserted"
              /\ m_size' = m_size + 1
              /\ try_find_key(m_root', k) = [has |-> TRUE, val |-> last'.value]
              /\ rm.has /\ rm.val = last'.value
              /\ ~try_find_key(rm.root, k).has]_vars

C10_Witness ==
    /\ last.op = "insert" /\ last.result = "Inserted" /\ last.value = 2
    /\ m_size = 4
    /\ Overwritten(m_root)

\* C11: in every tree and for every key k in it, insert(k, v) returns Failed
\* and leaves the tree as it was: the same nodes at the same positions with
\* the same colours, parent references, keys and values, and the same size.
C11_InsertPresentFails ==
    \A k \in KeysOf(m_root), v \in Values :
        InsertResult(m_root, m_size, k, v, FALSE)
            = [root |-> m_root, size |-> m_size, result |-> "Failed"]

C11_Witness ==
    /\ last.op = "insert" /\ last.result = "Failed"
    /\ m_size = 4
    /\ <<last.key, last.value>> \notin ContentsOf(m_root)
    /\ m_root.key # last.key

\* The tree t with the value v in every node of key k
RECURSIVE WithValueAt(_, _, _)
WithValueAt(t, k, v) ==
    IF IsNull(t) THEN t
    ELSE [t EXCEPT !.value = IF t.key = k THEN v ELSE @,
                   !.left  = WithValueAt(t.left, k, v),
                   !.right = WithValueAt(t.right, k, v)]

\* C12: in every tree and for every key k in it, insert_or_update(k, v)
\* returns Updated, a find(k) after it returns v, and nothing else changes:
\* the tree is the one before with v as the value of k (no rotation, no
\* recolouring of any node, the root included), and the size is the same.
C12_UpdatePresent ==
    \A k \in KeysOf(m_root), v \in Values :
        LET r == InsertResult(m_root, m_size, k, v, TRUE)
        IN  /\ r.result = "Updated"
            /\ r.size = m_size
            /\ r.root = WithValueAt(m_root, k, v)
            /\ try_find_key(r.root, k) = [has |-> TRUE, val |-> v]

C12_Witness ==
    /\ last.op = "insert_or_update" /\ last.result = "Updated"
    /\ m_size = 4
    /\ m_root.key # last.key
    /\ last.value = 2
    /\ \E e \in ContentsOf(m_root) : e[1] # last.key /\ e[2] = 1

\* C13: in every reachable tree and for every key k in it, with value v,
\* remove(k) returns v, takes exactly 1 from size(), removes the one node of
\* key k, and leaves every other key in the tree with the value it had.
C13_RemovePresent ==
    \A k \in KeysOf(m_root) :
        LET r == RemoveResult(m_root, m_size, k)
        IN  /\ r.has
            /\ <<k, r.val>> \in ContentsOf(m_root)
            /\ r.size = m_size - 1
            /\ CountNodes(r.root) = CountNodes(m_root) - 1
            /\ KeysOf(r.root) = KeysOf(m_root) \ {k}
            /\ ContentsOf(r.root) = ContentsOf(m_root) \ {<<k, r.val>>}

C13_Witness ==
    /\ last.op = "remove" /\ last.result = "value" /\ last.out = 2
    /\ m_size = 3
    /\ Overwritten(m_root)
    /\ {e[2] : e \in ContentsOf(m_root)} = {1, 2}

\* C14: in every tree, the empty one included, and for every key k not in
\* it, remove(k) returns absence and leaves the tree as it was: the same
\* nodes at the same positions with the same colours (no rotation, no
\* recolouring, of the root or of any other node), and the same size.
C14_RemoveAbsent ==
    \A k \in Keys \ KeysOf(m_root) :
        RemoveResult(m_root, m_size, k)
            = [root |-> m_root, size |-> m_size, has |-> FALSE, val |-> 0]

C14_Witness ==
    /\ last.op = "remove" /\ last.result = "nullopt"
    /\ m_size = 3
    /\ \E a, b \in KeysOf(m_root) : a < last.key /\ last.key < b
    /\ \E n \in NodesOf(m_root) : is_red(n)

\* C15: clear() on any tree leaves size() = 0 and is_empty() true, and find
\* returns absence for every key; on an empty tree it changes nothing; a
\* clear() right after a clear() changes nothing; and the tree it leaves is
\* the tree of a new RBTree, on which an insert of any key returns Inserted
\* and leaves a tree of size 1 that satisfies the invariants 1-5 and holds
\* the key.
C15_Clear ==
    [][last'.op = "clear"
       => /\ m_size' = 0
          /\ IsNull(m_root')
          /\ \A k \in Keys : ~try_find_key(m_root', k).has
          /\ (IsNull(m_root) /\ m_size = 0)
                => (m_root' = m_root /\ m_size' = m_size)
          /\ last.op = "clear" => (m_root' = m_root /\ m_size' = m_size)
          /\ m_root' = nullptr
          /\ \A k \in Keys, v \in Values :
                LET r == InsertResult(m_root', m_size', k, v, FALSE)
                IN  /\ r.result = "Inserted"
                    /\ r.size = 1
                    /\ StructurallyValid(r.root)
                    /\ try_find_key(r.root, k) = [has |-> TRUE, val |-> v]]_vars

C15_Witness ==
    /\ last.op = "clear"
    /\ IsNull(m_root)
    /\ m_size = 0
    /\ amap = {}

\* The keys of a sequence of (key, value) pairs are strictly ascending
Ascending(seq) == \A i \in 1..(Len(seq) - 1) : seq[i][1] < seq[i + 1][1]

\* The keys of a sequence of (key, value) pairs are strictly descending
Descending(seq) == \A i \in 1..(Len(seq) - 1) : seq[i][1] > seq[i + 1][1]

\* The elements of a sequence
Range(seq) == {seq[i] : i \in DOMAIN seq}

\* C16: on every tree built by inserts (SpecIter reaches them all on 5 keys,
\* the one of the inserts 1, 2, 3, 4, 5 in ascending order included, and
\* those left by removes as well), visit_inorder with a visitor that always
\* returns true calls the visitor once for every stored key, in strictly
\* ascending order of the keys.
C16_InorderAscending ==
    LET r == visit_inorder(m_root, {})
    IN  /\ r.ret
        /\ Len(r.seen) = CountNodes(m_root)
        /\ Range(r.seen) = ContentsOf(m_root)
        /\ Ascending(r.seen)
        /\ (last.op = "visit_inorder" /\ last.key = 0) => last.out = r.seen

C16_Witness ==
    /\ last.op = "visit_inorder" /\ last.key = 0
    /\ Len(last.out) = 5
    /\ ~Overwritten(m_root)
    /\ m_root.key = 2 /\ m_root.right.key = 4 /\ is_red(m_root.right)

\* The loop  for (it = begin(); it != end(); ++it)  from the iterator iter
\* on: the sequence of *it.  turns bounds the number of turns of the loop
\* that are followed.
RECURSIVE Forward(_, _)
Forward(iter, turns) ==
    IF operator_eq(iter, end(iter.m_tree)) \/ turns = 0 THEN <<>>
    ELSE <<operator_star(iter)>> \o Forward(operator_inc(iter), turns - 1)

\* The largest and the smallest number of a non-empty set
MaxOf(S) == CHOOSE x \in S : \A y \in S : y <= x

MinOf(S) == CHOOSE x \in S : \A y \in S : x <= y

\* C17: on every tree reachable by inserts and removes, the loop from
\* begin() by ++ until end() ends after size() nodes and yields the (key,
\* value) sequence of visit_inorder; begin() is the node of the smallest key
\* (end() on the empty tree), ++ at a node moves to the node of the next
\* larger key, and ++ at the node of the largest key gives end().
C17_ForwardIteration ==
    LET seq == Forward(begin(m_root), m_size + 1)
    IN  /\ Len(seq) = m_size
        /\ seq = visit_inorder(m_root, {}).seen
        /\ IF IsNull(m_root)
           THEN operator_eq(begin(m_root), end(m_root))
           ELSE operator_star(begin(m_root))[1] = MinOf(KeysOf(m_root))
        /\ \A n \in NodesOf(m_root) :
              LET it == operator_inc(InorderIter(m_root, n.id))
              IN  IF n.key = MaxOf(KeysOf(m_root))
                  THEN operator_eq(it, end(m_root))
                  ELSE /\ ~operator_eq(it, end(m_root))
                       /\ operator_star(it)[1]
                            = MinOf({k \in KeysOf(m_root) : k > n.key})
        /\ last.op = "begin" => last.out = begin(m_root).m_node
        /\ last.op = "++" =>
              last.out = operator_inc(InorderIter(m_root, last.from)).m_node

C17_Witness ==
    /\ last.op = "++" /\ last.out = 0
    /\ m_size = 5
    /\ last.from # 0
    /\ Deref(m_root, last.from).key = 5
    /\ Overwritten(m_root)

\* C18: on every non-empty reachable tree, ++ and then -- on an iterator at
\* a node, the node of the largest key included, gives an iterator equal to
\* the one before, at the same node; on the iterator end(), ++ and then --
\* gives the iterator at the node of the largest key.
C18_IncThenDec ==
    /\ \A n \in NodesOf(m_root) :
          LET it == InorderIter(m_root, n.id)
          IN  /\ operator_eq(operator_dec(operator_inc(it)), it)
              /\ operator_dec(operator_inc(it)).m_node = n.id
    /\ ~IsNull(m_root) =>
          LET it == operator_dec(operator_inc(end(m_root)))
          IN  /\ ~operator_eq(it, end(m_root))
              /\ operator_star(it)[1] = MaxOf(KeysOf(m_root))
    /\ last.op = "--" =>
          last.out = operator_dec(InorderIter(m_root, last.from)).m_node

C18_Witness ==
    /\ last.op = "--" /\ last.from = 0 /\ last.out # 0
    /\ m_size = 5
    /\ Deref(m_root, last.out).key = 5
    /\ ~IsNull(Deref(m_root, last.out).left)

\* The loop  for (it = end(); it != begin(); ) { --it; ... }  from the
\* iterator iter on: the sequence of *it
RECURSIVE Backward(_, _)
Backward(iter, turns) ==
    IF operator_eq(iter, begin(iter.m_tree)) \/ turns = 0 THEN <<>>
    ELSE LET it == operator_dec(iter)
         IN  <<operator_star(it)>> \o Backward(it, turns - 1)

\* C19: on every non-empty reachable tree, -- on end() gives the node of the
\* largest key, and -- on an iterator at a node other than that of the
\* smallest key gives the node of the next smaller key; so -- repeated from
\* end() down to begin() visits every key once, in strictly descending
\* order.
C19_Backward ==
    ~IsNull(m_root) =>
        /\ operator_star(operator_dec(end(m_root)))[1] = MaxOf(KeysOf(m_root))
        /\ \A n \in NodesOf(m_root) :
              n.key # MinOf(KeysOf(m_root)) =>
                  LET it == operator_dec(InorderIter(m_root, n.id))
                  IN  /\ ~operator_eq(it, end(m_root))
                      /\ operator_star(it)[1]
                            = MaxOf({k \in KeysOf(m_root) : k < n.key})
        /\ LET seq == Backward(end(m_root), m_size + 1)
           IN  /\ Len(seq) = m_size
               /\ Descending(seq)
               /\ Range(seq) = ContentsOf(m_root)

C19_Witness ==
    /\ last.op = "--" /\ last.from # 0 /\ last.out # 0
    /\ m_size = 5
    /\ IsNull(Deref(m_root, last.from).left)
    /\ Deref(m_root, last.from).parent # last.out
    /\ Overwritten(m_root)

\* The keys of a sequence of (key, value) pairs
KeysIn(seq) == [i \in DOMAIN seq |-> seq[i][1]]

\* C20: on an empty tree, the inserts of 8, 3, 10, 1, 6, 14, 4, 7, 13 each
\* return Inserted; after them the size is 9, validate() passes and the
\* inorder traversal yields 1, 3, 4, 6, 7, 8, 10, 13, 14; insert of 1 then
\* returns Failed, insert_or_update of 1 returns Updated and find(1) gives
\* the new value; remove(42) returns absence; the removes of 8, 4, 1, 13 each
\* return the stored value with validate() passing after each, the size
\* after them is 5, and the same removes again each return absence.
C20_Scenario ==
    LET at == ScenarioAt
    IN  /\ at \in 0..21
        /\ at \in 1..9 =>
              /\ last.op = "insert" /\ last.key = ScenarioKeys[at]
              /\ last.result = "Inserted"
              /\ m_size = at
        /\ at \in 9..11 =>
              /\ m_size = 9
              /\ validate(m_root, m_size) = "ok"
              /\ KeysIn(visit_inorder(m_root, {}).seen)
                    = <<1, 3, 4, 6, 7, 8, 10, 13, 14>>
        /\ at = 10 =>
              /\ last.op = "insert" /\ last.key = ScenarioExisting
              /\ last.result = "Failed"
        /\ at = 11 =>
              /\ last.key = ScenarioExisting
              /\ last.result = "Updated"
              /\ try_find_key(m_root, ScenarioExisting)
                    = [has |-> TRUE, val |-> last.value]
        /\ at = 12 =>
              /\ last.result = "value"
              /\ <<last.key, last.out>> \in ContentsOf(m_root)
              /\ m_size = 9
        /\ at = 13 =>
              /\ last.result = "nullopt"
              /\ m_size = 9
              /\ validate(m_root, m_size) = "ok"
        /\ at \in 14..17 =>
              /\ last.key = ScenarioRemoved[at - 13]
              /\ last.result = "value"
              /\ last.out = alast.out
              /\ m_size = 22 - at
              /\ validate(m_root, m_size) = "ok"
        /\ at \in 18..21 =>
              /\ last.result = "nullopt"
              /\ m_size = 5
              /\ validate(m_root, m_size) = "ok"
              /\ KeysOf(m_root) = {3, 6, 7, 10, 14}

C20_Witness ==
    /\ ScenarioAt = 21
    /\ last.op = "remove" /\ last.key = 13 /\ last.result = "nullopt"
    /\ m_size = 5
    /\ KeysOf(m_root) = {3, 6, 7, 10, 14}

\* C21: validate() detects every violation of the invariants 1-5: on every
\* non-empty tree, reachable or not, that breaks the search-tree order
\* (anywhere below an ancestor), has a Red node with a Red child, has unequal
\* Black counts, has a Red root, or has a parent reference that is not the
\* structural parent, an assert of validate() fails.
C21_ValidateComplete ==
    (last.op = "validate" /\ ~IsNull(m_root) /\ ~StructurallyValid(m_root))
        => last.result # "ok"

\* The traversal orders of a tree, as sequences of (key, value) pairs:
\* Left-Root-Right, Root-Left-Right and Left-Right-Root
RECURSIVE LeftRootRight(_)
LeftRootRight(t) ==
    IF IsNull(t) THEN <<>>
    ELSE LeftRootRight(t.left) \o <<<<t.key, t.value>>>>
             \o LeftRootRight(t.right)

RECURSIVE RootLeftRight(_)
RootLeftRight(t) ==
    IF IsNull(t) THEN <<>>
    ELSE <<<<t.key, t.value>>>> \o RootLeftRight(t.left)
             \o RootLeftRight(t.right)

RECURSIVE LeftRightRoot(_)
LeftRightRoot(t) ==
    IF IsNull(t) THEN <<>>
    ELSE LeftRightRoot(t.left) \o LeftRightRoot(t.right)
             \o <<<<t.key, t.value>>>>

\* The sequence up to and including its first pair of key k, all of it if
\* it has none
UpTo(seq, k) ==
    IF \E i \in DOMAIN seq : seq[i][1] = k
    THEN SubSeq(seq, 1, MinOf({i \in DOMAIN seq : seq[i][1] = k}))
    ELSE seq

\* C22: in visit_inorder, visit_preorder and visit_postorder on any tree,
\* once the visitor has returned false at a node it is not called again, and
\* the nodes it was called with, that node included, are the prefix of the
\* full order (Left-Root-Right, Root-Left-Right, Left-Right-Root) that ends
\* at that node; the traversal leaves the tree as it was.
C22_VisitStops ==
    [][last'.op \in {"visit_inorder", "visit_preorder", "visit_postorder"}
       => /\ m_root' = m_root
          /\ m_size' = m_size
          /\ last'.out =
                UpTo(CASE last'.op = "visit_inorder" -> LeftRootRight(m_root)
                       [] last'.op = "visit_preorder" -> RootLeftRight(m_root)
                       [] OTHER -> LeftRightRoot(m_root),
                     last'.key)
          /\ \A i \in 1..(Len(last'.out) - 1) : last'.out[i][1] # last'.key
          /\ \A stop \in Visitors :
                /\ visit_inorder(m_root, stop).ret = (stop \cap KeysOf(m_root) = {})
                /\ visit_preorder(m_root, stop).ret = (stop \cap KeysOf(m_root) = {})
                /\ visit_postorder(m_root, stop).ret = (stop \cap KeysOf(m_root) = {})
      ]_vars

C22_Witness ==
    /\ last.op = "visit_postorder"
    /\ m_size = 5
    /\ last.key = m_root.left.key
    /\ Len(last.out) \in 2..3
    /\ ~IsNull(m_root.right)

\* The reads that the calls make through pointers.  X_Defined is true when
\* every pointer that X reads through holds a node and every assert of X
\* holds, for the arguments given.

\* single_rotation reads through root (old_root) and through save
single_rotation_Defined(root, dir) ==
    /\ ~IsNull(root)
    /\ ~IsNull(child(root, Opposite(dir)))

\* double_rotation reads through root, and rotates its child and then root
double_rotation_Defined(root, dir) ==
    /\ ~IsNull(root)
    /\ single_rotation_Defined(child(root, Opposite(dir)), Opposite(dir))
    /\ single_rotation_Defined(
           SetChild(root, Opposite(dir),
                    single_rotation(child(root, Opposite(dir)), Opposite(dir))),
           dir)

\* insert_rebalance reads through root, root->left and root->right when it
\* recolors, and through child when it looks at the grandchildren
insert_rebalance_Defined(root, dir) ==
    /\ ~IsNull(root)
    /\ LET c  == child(root, dir)
           oc == child(root, Opposite(dir))
       IN  (~IsNull(c) /\ is_red(c)) =>
              IF ~IsNull(oc) /\ is_red(oc)
              THEN ~IsNull(root.left) /\ ~IsNull(root.right)
              ELSE IF ~IsNull(child(c, dir)) /\ is_red(child(c, dir))
              THEN single_rotation_Defined(root, Opposite(dir))
              ELSE IF ~IsNull(child(c, Opposite(dir)))
                      /\ is_red(child(c, Opposite(dir)))
              THEN double_rotation_Defined(root, Opposite(dir))
              ELSE TRUE

\* remove_rebalance reads through root, through root again after the rotation
\* of Case 1, and in Case 3 through root->left and root->right after the
\* rotation
remove_rebalance_Defined(root, dir) ==
    /\ ~IsNull(root)
    /\ LET odir  == Opposite(dir)
           s0    == child(root, odir)
           case1 == ~IsNull(s0) /\ is_red(s0)
           root1 == IF case1 THEN single_rotation(root, dir) ELSE root
       IN  /\ case1 => single_rotation_Defined(root, dir)
           /\ ~IsNull(root1)
           /\ LET s == child(root1, odir)
              IN  (/\ ~IsNull(s)
                   /\ \/ ~IsNull(s.left)  /\ is_red(s.left)
                      \/ ~IsNull(s.right) /\ is_red(s.right)) =>
                     LET single == ~IsNull(child(s, odir))
                                      /\ is_red(child(s, odir))
                         rot    == IF single
                                   THEN single_rotation(root1, dir)
                                   ELSE double_rotation(root1, dir)
                     IN  /\ IF single
                            THEN single_rotation_Defined(root1, dir)
                            ELSE double_rotation_Defined(root1, dir)
                         /\ ~IsNull(rot)
                         /\ ~IsNull(rot.left)
                         /\ ~IsNull(rot.right)

\* try_insert_key_val reads through node below its null test, and rebalances
\* on the way back from an insertion
RECURSIVE try_insert_key_val_Defined(_, _, _, _)
try_insert_key_val_Defined(node, key, allow_update, addr) ==
    IF IsNull(node) \/ key = node.key THEN TRUE
    ELSE LET dir == IF key < node.key THEN DIR_LEFT ELSE DIR_RIGHT
             r   == try_insert_key_val(node.id, child(node, dir), key, 1,
                                       allow_update, 0, addr)
         IN  /\ try_insert_key_val_Defined(child(node, dir), key,
                                           allow_update, addr)
             /\ r.result = "Inserted" =>
                   insert_rebalance_Defined(SetChild(node, dir, r.node), dir)

\* try_remove_key reads through root below its null test, asserts that the
\* child taking the slot names root as its parent and that the successor
\* exists, and rebalances on the way back while is_done is false
RECURSIVE try_remove_key_Defined(_, _, _)
try_remove_key_Defined(root, is_done, key) ==
    IF IsNull(root) THEN TRUE
    ELSE IF root.key = key /\ (IsNull(root.left) \/ IsNull(root.right))
    THEN LET c == child(root, IF IsNull(root.left)
                              THEN DIR_RIGHT ELSE DIR_LEFT)
         IN  IsNull(c) \/ c.parent = root.id
    ELSE LET two       == root.key = key
             successor == find_max(root.left)
         IN  /\ two => ~IsNull(successor)
             /\ LET root1 == IF two
                             THEN [root EXCEPT
                                      !.key   = successor.key,
                                      !.value = successor.value,
                                      !.left  = MoveValueOfMax(root.left)]
                             ELSE root
                    key1  == IF two THEN successor.key ELSE key
                    dir   == IF root1.key < key1 THEN DIR_RIGHT ELSE DIR_LEFT
                    r     == try_remove_key(child(root1, dir), is_done, key1, 0)
                IN  /\ try_remove_key_Defined(child(root1, dir), is_done, key1)
                    /\ ~r.is_done =>
                          remove_rebalance_Defined(
                              SetChild(root1, dir, r.root), dir)

\* Every position of t holds nullptr or a whole Node
RECURSIVE IsTree(_)
IsTree(t) ==
    IF IsNull(t) THEN t = nullptr
    ELSE /\ DOMAIN t = {"id", "key", "value", "parent", "left", "right",
                         "color"}
         /\ t.color \in {Red, Black}
         /\ IsTree(t.left)
         /\ IsTree(t.right)

\* C23: in every tree the public calls can reach and for every key, insert,
\* insert_or_update, remove and find return, each with one of its outcomes
\* (Inserted or Failed; Inserted or Updated; a value or absence), leaving a
\* tree of whole nodes; no rotation or fixup of the call reads through an
\* absent child, and no assert of the removal fails.
C23_Total ==
    /\ last.op = "insert" => last.result \in {"Inserted", "Failed"}
    /\ last.op = "insert_or_update" => last.result \in {"Inserted", "Updated"}
    /\ last.op \in {"remove", "find"} => last.result \in {"value", "nullopt"}
    /\ IsTree(m_root)
    /\ \A k \in 1..(MaxShapeKey + 1) :
          /\ LET r == InsertResult(m_root, m_size, k, 1, FALSE)
             IN  r.result \in {"Inserted", "Failed"} /\ IsTree(r.root)
          /\ LET r == InsertResult(m_root, m_size, k, 1, TRUE)
             IN  r.result \in {"Inserted", "Updated"} /\ IsTree(r.root)
          /\ LET r == RemoveResult(m_root, m_size, k)
             IN  r.has \in BOOLEAN /\ IsTree(r.root)
          /\ try_find_key(m_root, k).has \in BOOLEAN
          /\ \A allow_update \in BOOLEAN :
                try_insert_key_val_Defined(m_root, k, allow_update,
                                           NewAddr(m_root, k))
          /\ try_remove_key_Defined(m_root, FALSE, k)

C23_Witness ==
    /\ last.op = "remove" /\ last.result = "value"
    /\ m_size = 4
    /\ ~EqualBlackHeights(m_root)
    /\ Overwritten(m_root)

\* The number of nodes on the longest path from t down to a leaf
RECURSIVE Height(_)
Height(t) ==
    IF IsNull(t) THEN 0
    ELSE 1 + (IF Height(t.left) > Height(t.right)
              THEN Height(t.left) ELSE Height(t.right))

RECURSIVE Pow2(_)
Pow2(n) == IF n = 0 THEN 1 ELSE 2 * Pow2(n - 1)

\* C24: a tree built by insert calls alone, the sorted input included, has
\* at least 2^ceil(h/2) - 1 nodes, h being its height and the number of nodes
\* its size.
C24_LogHeight ==
    /\ m_size = CountNodes(m_root)
    /\ m_size >= Pow2((Height(m_root) + 1) \div 2) - 1

C24_Witness ==
    /\ last.op = "insert" /\ last.result = "Inserted"
    /\ last.key = 15
    /\ m_size = 15
    /\ \A t \in NodesOf(m_root) : t.id = t.key
    /\ Height(m_root) > 4

\* The calls of remove_rebalance that try_remove_key(root, is_done, key)
\* makes, as the pairs <<root, dir>> of their arguments, innermost first
RECURSIVE RebalanceCalls(_, _, _)
RebalanceCalls(root, is_done, key) ==
    IF IsNull(root) THEN <<>>
    ELSE IF root.key = key /\ (IsNull(root.left) \/ IsNull(root.right))
    THEN <<>>
    ELSE LET two       == root.key = key
             successor == find_max(root.left)
             root1     == IF two
                          THEN [root EXCEPT
                                   !.key   = successor.key,
                                   !.value = successor.value,
                                   !.left  = MoveValueOfMax(root.left)]
                          ELSE root
             key1      == IF two THEN successor.key ELSE key
             dir       == IF root1.key < key1 THEN DIR_RIGHT ELSE DIR_LEFT
             r         == try_remove_key(child(root1, dir), is_done, key1, 0)
         IN  RebalanceCalls(child(root1, dir), is_done, key1)
             \o (IF ~r.is_done
                 THEN << <<SetChild(root1, dir, r.root), dir>> >>
                 ELSE <<>>)

\* Case 1 of remove_rebalance applies to the arguments c
RedSibling(c) ==
    LET s == child(c[1], Opposite(c[2]))
    IN  ~IsNull(s) /\ is_red(s)

\* C25: from a tree that satisfies the invariants 1-5, a remove whose fixup
\* meets a Red sibling leaves a tree with equal Black counts on all paths and
\* no Red node with a Red child.
C25_RedSibling ==
    \A k \in ShapeKeys :
       (/\ StructurallyValid(m_root)
        /\ \E i \in DOMAIN RebalanceCalls(m_root, FALSE, k) :
              RedSibling(RebalanceCalls(m_root, FALSE, k)[i]))
       => LET r == RemoveResult(m_root, m_size, k)
          IN  EqualBlackHeights(r.root) /\ NoRedRed(r.root)

----------------------------------------------------------------------------
\* SpecRotate: the two rotations, applied at any node of any binary tree on
\* the keys 1..MaxRotateKey with any colours and matching parent references,
\* wherever the children that the rotation promotes exist.

MaxRotateKey == 4

\* t with the subtree whose root has address id replaced by new: the
\* assignment through the reference root
RECURSIVE ReplaceAt(_, _, _)
ReplaceAt(t, id, new) ==
    IF IsNull(t) THEN t
    ELSE IF t.id = id THEN new
    ELSE [t EXCEPT !.left  = ReplaceAt(t.left, id, new),
                   !.right = ReplaceAt(t.right, id, new)]

InitRotate ==
    /\ m_root \in UNION {TreesOn(S, 0, {}) : S \in SUBSET (1..MaxRotateKey)}
    /\ m_size = CountNodes(m_root)
    /\ last = NoCall
    /\ amap = ContentsOf(m_root)
    /\ alast = [result |-> "void", out |-> 0]

RotationCall(op, root, dir, rotated) ==
    /\ m_root' = ReplaceAt(m_root, root.id, rotated)
    /\ last' = [NoCall EXCEPT !.op = op, !.key = root.id, !.value = dir]
    /\ UNCHANGED <<m_size, amap, alast>>

single_rotationCall ==
    \E root \in NodesOf(m_root), dir \in {DIR_LEFT, DIR_RIGHT} :
        /\ single_rotation_Defined(root, dir)
        /\ RotationCall("single_rotation", root, dir,
                        single_rotation(root, dir))

double_rotationCall ==
    \E root \in NodesOf(m_root), dir \in {DIR_LEFT, DIR_RIGHT} :
        /\ double_rotation_Defined(root, dir)
        /\ RotationCall("double_rotation", root, dir,
                        double_rotation(root, dir))

NextRotate == single_rotationCall \/ double_rotationCall

SpecRotate == InitRotate /\ [][NextRotate]_vars

\* The nodes of t, as addresses with the key and value they hold
Identities(t) == {<<n.id, n.key, n.value>> : n \in NodesOf(t)}

\* Below t every node's parent reference names its structural parent
ParentsBelow(t) ==
    \A n \in NodesOf(t) :
        /\ IsNull(n.left)  \/ n.left.parent = n.id
        /\ IsNull(n.right) \/ n.right.parent = n.id

\* C26: at every node whose child opposite to dir exists, single_rotation
\* keeps the in-order sequence and the set of nodes of the subtree, makes the
\* former opposite child the subtree's root, Black, with the former root as
\* its dir child, Red, gives the new root the former root's parent, and
\* leaves every parent reference below it naming the structural parent;
\* double_rotation, where both of its rotations have the child they promote,
\* keeps the in-order sequence and the set of nodes.
C26_Rotations ==
    \A root \in NodesOf(m_root), dir \in {DIR_LEFT, DIR_RIGHT} :
        /\ single_rotation_Defined(root, dir) =>
              LET r == single_rotation(root, dir)
              IN  /\ LeftRootRight(r) = LeftRootRight(root)
                  /\ Identities(r) = Identities(root)
                  /\ CountNodes(r) = CountNodes(root)
                  /\ r.id = child(root, Opposite(dir)).id
                  /\ is_black(r)
                  /\ child(r, dir).id = root.id
                  /\ is_red(child(r, dir))
                  /\ r.parent = root.parent
                  /\ ParentsBelow(r)
        /\ double_rotation_Defined(root, dir) =>
              LET r == double_rotation(root, dir)
              IN  /\ LeftRootRight(r) = LeftRootRight(root)
                  /\ Identities(r) = Identities(root)
                  /\ CountNodes(r) = CountNodes(root)

C26_Witness ==
    /\ last.op = "double_rotation"
    /\ m_size = 4
    /\ ParentsMatch(m_root)
    /\ \E n \in NodesOf(m_root) :
          /\ n.id = last.key
          /\ n.parent # 0
          /\ n.parent # m_root.id

----------------------------------------------------------------------------
\* C27: when remove(k) matches a node with two children, the node at that
\* address stays in the tree and holds the key and value of the maximum of
\* its left subtree, the node that held them is the one node unlinked, every
\* other node keeps its key and value, size is one less, and the value
\* returned is the one that was stored under k.
C27_TwoChildren ==
    \A k \in Keys :
       \A n \in {x \in NodesOf(m_root) :
                    x.key = k /\ ~IsNull(x.left) /\ ~IsNull(x.right)} :
          LET p == find_max(n.left)
              r == RemoveResult(m_root, m_size, k)
          IN  /\ AddrsOf(r.root) = AddrsOf(m_root) \ {p.id}
              /\ Identities(r.root) =
                    (Identities(m_root)
                        \ {<<n.id, n.key, n.value>>, <<p.id, p.key, p.value>>})
                    \cup {<<n.id, p.key, p.value>>}
              /\ \A x \in NodesOf(n.left) : x.key <= p.key
              /\ r.size = m_size - 1
              /\ r.size = CountNodes(r.root)
              /\ r.has
              /\ r.val = n.value

C27_Witness ==
    /\ last.op = "remove" /\ last.result = "value"
    /\ last.out = 2
    /\ \E n \in NodesOf(m_root) :
          /\ n.id = last.key
          /\ n.key < last.key
          /\ n.value = 1
          /\ ~IsNull(n.right)

----------------------------------------------------------------------------
\* C28: when remove(k) matches a node with at most one child, the call on
\* that node's slot leaves there the child, or nothing, with the removed
\* node's parent as its parent; if the node was Red, or Black with a Red
\* child, which then is Black, remove_rebalance is called at no ancestor;
\* otherwise it is called at the node's parent, on the side of the node.
C28_AtMostOneChild ==
    \A k \in ShapeKeys :
       \A n \in {x \in NodesOf(m_root) :
                    x.key = k /\ (IsNull(x.left) \/ IsNull(x.right))} :
          LET c     == IF IsNull(n.left) THEN n.right ELSE n.left
              recol == is_black(n) /\ ~IsNull(c) /\ is_red(c)
              r     == try_remove_key(n, FALSE, k, m_size)
              calls == RebalanceCalls(m_root, FALSE, k)
          IN  /\ r.root = IF IsNull(c) THEN nullptr
                          ELSE [c EXCEPT !.parent = n.parent,
                                         !.color  = IF recol THEN Black
                                                    ELSE c.color]
              /\ r.size = m_size - 1
              /\ IF is_red(n) \/ recol \/ n.parent = 0
                 THEN calls = <<>>
                 ELSE /\ calls # <<>>
                      /\ calls[1][1].id = n.parent
                      /\ child(calls[1][1], calls[1][2]) = r.root
                      /\ calls[1][2] = (IF calls[1][1].key < k
                                        THEN DIR_RIGHT ELSE DIR_LEFT)

C28_Witness ==
    /\ last.op = "remove" /\ last.result = "value"
    /\ m_size = 4
    /\ ~Overwritten(m_root)
    /\ last.key \notin AddrsOf(m_root)
    /\ StructurallyValid(m_root)
    /\ \E n \in NodesOf(m_root) :
          is_black(n) /\ IsNull(n.left) /\ IsNull(n.right) /\ n.parent # 0

----------------------------------------------------------------------------
\* The subtree of t whose root has address id (nullptr if there is none)
RECURSIVE SubtreeAt(_, _)
SubtreeAt(t, id) ==
    IF IsNull(t) \/ t.id = id THEN t
    ELSE LET l == SubtreeAt(t.left, id)
         IN  IF IsNull(l) THEN SubtreeAt(t.right, id) ELSE l

\* Case 3 of remove_rebalance applies to the arguments c at once: the
\* sibling is Black and has a Red child
BlackSiblingRedChild(c) ==
    LET s == child(c[1], Opposite(c[2]))
    IN  /\ ~IsNull(s) /\ is_black(s)
        /\ \/ ~IsNull(s.left)  /\ is_red(s.left)
           \/ ~IsNull(s.right) /\ is_red(s.right)

----------------------------------------------------------------------------
\* SpecFixup: one remove from any tree on the keys 1..n, n up to MaxFixupKey,
\* that satisfies the invariants 1-5.

MaxFixupKey == 11

\* The subtrees on the keys lo..hi with every path holding bh Black nodes,
\* no Red node with a Red child, parent p, and a Red root only if canRed.
\* Such a subtree has at least 2^bh - 1 nodes.
RECURSIVE RBTrees(_, _, _, _, _)
RBTrees(lo, hi, p, bh, canRed) ==
    IF Pow2(bh) - 1 > hi - lo + 1 THEN {}
    ELSE IF lo > hi THEN {nullptr}
    ELSE UNION { UNION {
             {[id |-> k, key |-> k, value |-> 1, parent |-> p,
               left |-> l, right |-> r, color |-> c] :
                  l \in RBTrees(lo, k - 1, k,
                                IF c = Black THEN bh - 1 ELSE bh, c = Black),
                  r \in RBTrees(k + 1, hi, k,
                                IF c = Black THEN bh - 1 ELSE bh, c = Black)}
             : c \in {x \in {Red, Black} :
                         (x = Black /\ bh > 0) \/ (x = Red /\ canRed)}}
           : k \in lo..hi}

InitFixup ==
    /\ m_root \in UNION {RBTrees(1, n, 0, bh, FALSE) :
                            n \in 0..MaxFixupKey, bh \in 0..MaxFixupKey}
    /\ m_size = CountNodes(m_root)
    /\ last = NoCall
    /\ amap = ContentsOf(m_root)
    /\ alast = [result |-> "void", out |-> 0]

removeFixup ==
    /\ last = NoCall
    /\ \E k \in 1..MaxFixupKey : RemoveCall(k)

NextFixup == removeFixup

SpecFixup == InitFixup /\ [][NextFixup]_vars

\* C29: in a remove from a tree that satisfies the invariants 1-5, a call of
\* remove_rebalance that finds the sibling Black with a Red child rotates
\* once if the sibling's far child is Red (the sibling becomes the subtree's
\* root) and twice otherwise (the sibling's near child does); the new root
\* has the colour the node had, both its children are Black, the Black count
\* of the subtree is the one it had before the remove, the call returns
\* true, and no further remove_rebalance follows.
C29_BlackSiblingRedChild ==
    \A k \in 1..MaxFixupKey :
       StructurallyValid(m_root) =>
          LET calls == RebalanceCalls(m_root, FALSE, k)
          IN  \A i \in DOMAIN calls :
                 BlackSiblingRedChild(calls[i]) =>
                    LET root == calls[i][1]
                        dir  == calls[i][2]
                        s    == child(root, Opposite(dir))
                        far  == child(s, Opposite(dir))
                        rb   == remove_rebalance(root, dir)
                    IN  /\ rb.root.id = IF ~IsNull(far) /\ is_red(far)
                                        THEN s.id ELSE child(s, dir).id
                        /\ rb.root.color = root.color
                        /\ rb.root.parent = root.parent
                        /\ ~IsNull(rb.root.left)  /\ is_black(rb.root.left)
                        /\ ~IsNull(rb.root.right) /\ is_black(rb.root.right)
                        /\ child(rb.root, dir).id = root.id
                        /\ BlackCounts(rb.root)
                              = BlackCounts(SubtreeAt(m_root, root.id))
                        /\ rb.is_done
                        /\ i = Len(calls)

----------------------------------------------------------------------------
\* C30: ++ and -- on an iterator at a node of the tree or at end() give an
\* iterator at a node of the tree or at end(); -- on begin() of a non-empty
\* tree gives an iterator equal to end(); ++ on end() gives end(); on the
\* empty tree begin() equals end() and -- on end() gives end().
C30_Boundaries ==
    /\ \A at \in AddrsOf(m_root) \cup {0} :
          LET it == InorderIter(m_root, at)
          IN  /\ operator_inc(it).m_node \in AddrsOf(m_root) \cup {0}
              /\ operator_dec(it).m_node \in AddrsOf(m_root) \cup {0}
    /\ HasIter => last.out \in AddrsOf(m_root) \cup {0}
    /\ ~IsNull(m_root) =>
          /\ ~operator_eq(begin(m_root), end(m_root))
          /\ operator_star(begin(m_root))[1] = MinOf(KeysOf(m_root))
          /\ operator_eq(operator_dec(begin(m_root)), end(m_root))
    /\ operator_eq(operator_inc(end(m_root)), end(m_root))
    /\ IsNull(m_root) =>
          /\ operator_eq(begin(m_root), end(m_root))
          /\ operator_eq(operator_dec(end(m_root)), end(m_root))
    /\ (last.op = "++" /\ last.from = 0) => last.out = 0
    /\ (last.op = "--" /\ last.from # 0
          /\ last.from = begin(m_root).m_node) => last.out = 0
    /\ (last.op = "--" /\ IsNull(m_root)) => last.out = 0

C30_Witness ==
    /\ last.op = "--" /\ last.from # 0 /\ last.out = 0
    /\ m_size = 5
    /\ Deref(m_root, last.from).key = 1
    /\ Deref(m_root, last.from).parent # 0
    /\ Overwritten(m_root)

====
